---- MODULE Spec2Model ----
(***************************************************************************)
(* Model of the recipe extraction pass of src/src/pdf_loader.py            *)
(* (split_into_chunks).                                                    *)
(*                                                                         *)
(* Text is a sequence of tokens.  The tokens "I", "M" and "T" stand for    *)
(* the literal words INGREDIENTS, METHOD and CHEF'S TIP: (the only         *)
(* multi-character strings the code searches for), "W" for one long word   *)
(* without whitespace, colon or marker, and every other token for the      *)
(* single character it shows.  len() is the sum of the token widths.       *)
(***************************************************************************)
EXTENDS Integers, Sequences, FiniteSets, TLC

VARIABLES documents, documents0, i, pc, locals, recipe_chunks

\* upload_recipes: the store, the arguments, the names of the function, the
\* calls of index.upsert so far, the position in the function
VARIABLES index, upload_chunks, batch_size, upload_i, vectors_to_upsert,
          successful_uploads, upserts, upc

\* interactive_mode: what input() gave, the line as typed, the names of one
\* turn of the loop, the call of self.query, the position in the loop
VARIABLES event, line_in, user_input, call, lpc

uploadVars ==
  <<index, upload_chunks, batch_size, upload_i, vectors_to_upsert,
    successful_uploads, upserts, upc>>

loopVars == <<event, line_in, user_input, call, lpc>>

pdfVars == <<documents, documents0, i, pc, locals, recipe_chunks>>

vars == <<documents, documents0, i, pc, locals, recipe_chunks, uploadVars, loopVars>>

(***************************************************************************)
(* Bounds of the model.                                                    *)
(***************************************************************************)
MaxPages == 2
WordLen == 41
PMin == 10
PMax == 200
MaxLineLen == 9
MaxTabLineLen == 5

(***************************************************************************)
(* Program constants.                                                      *)
(***************************************************************************)
MinLength == 100
HeaderEnd == 5
BodyEnd == 45
GapLen == 3
IngredientsLen == 11
MethodLen == 6
ChefTipLen == 11

NL == "\n"
SP == " "
TAB == "\t"
EmptyStr == << >>

(***************************************************************************)
(* Python string primitives on token sequences.                            *)
(***************************************************************************)
Width(t) ==
  CASE t = "I" -> IngredientsLen
    [] t = "M" -> MethodLen
    [] t = "T" -> ChefTipLen
    [] t = "W" -> WordLen
    [] OTHER -> 1

RECURSIVE PyLen(_)
PyLen(s) == IF s = << >> THEN 0 ELSE Width(Head(s)) + PyLen(Tail(s))

IsSpace(t) == t \in {SP, TAB, NL}

HasTok(s, t) == \E k \in 1..Len(s) : s[k] = t

\* str.replace(t, ""): every occurrence of the word t removed
RECURSIVE Remove(_, _)
Remove(s, t) ==
  IF s = << >> THEN << >>
  ELSE IF Head(s) = t THEN Remove(Tail(s), t)
       ELSE <<Head(s)>> \o Remove(Tail(s), t)

\* str.replace("\n", " ")
NewlinesToSpaces(s) == [k \in 1..Len(s) |-> IF s[k] = NL THEN SP ELSE s[k]]

RECURSIVE LStrip(_)
LStrip(s) == IF s # << >> /\ IsSpace(Head(s)) THEN LStrip(Tail(s)) ELSE s

RECURSIVE RStrip(_)
RStrip(s) ==
  IF s # << >> /\ IsSpace(s[Len(s)]) THEN RStrip(SubSeq(s, 1, Len(s) - 1)) ELSE s

\* str.strip()
Strip(s) == RStrip(LStrip(s))

\* str.partition(t): <<before, separator found, after>> at the first t
FirstIndex(s, t) == CHOOSE k \in 1..Len(s) : s[k] = t /\ \A j \in 1..(k - 1) : s[j] # t

LastIndex(s, t) == CHOOSE k \in 1..Len(s) : s[k] = t /\ \A j \in (k + 1)..Len(s) : s[j] # t

Partition_Last(s, t) ==
  IF HasTok(s, t)
  THEN <<SubSeq(s, 1, LastIndex(s, t) - 1), TRUE, SubSeq(s, LastIndex(s, t) + 1, Len(s))>>
  ELSE <<s, FALSE, << >> >>

Partition(s, t) ==
  IF HasTok(s, t)
  THEN <<SubSeq(s, 1, FirstIndex(s, t) - 1), TRUE, SubSeq(s, FirstIndex(s, t) + 1, Len(s))>>
  ELSE <<s, FALSE, << >> >>

\* str.split("\n"): the lines of a text, at least one
RECURSIVE SplitLinesFrom(_, _, _)
SplitLinesFrom(s, cur, out) ==
  IF s = << >> THEN Append(out, cur)
  ELSE IF Head(s) = NL THEN SplitLinesFrom(Tail(s), << >>, Append(out, cur))
       ELSE SplitLinesFrom(Tail(s), Append(cur, Head(s)), out)

SplitLines(s) == SplitLinesFrom(s, << >>, << >>)

\* length of the whitespace run of line that starts at position k
RECURSIVE RunLen(_, _)
RunLen(line, k) ==
  IF k <= Len(line) /\ IsSpace(line[k]) THEN 1 + RunLen(line, k + 1) ELSE 0

\* re.split(r'\s{3,}', line): cut at every maximal whitespace run of 3 or more
RECURSIVE ReSplitFrom(_, _, _, _)
ReSplitFrom(line, k, cur, out) ==
  IF k > Len(line) THEN Append(out, cur)
  ELSE IF IsSpace(line[k])
       THEN IF RunLen(line, k) >= GapLen
            THEN ReSplitFrom(line, k + RunLen(line, k), << >>, Append(out, cur))
            ELSE ReSplitFrom(line, k + RunLen(line, k),
                             cur \o SubSeq(line, k, k + RunLen(line, k) - 1), out)
       ELSE ReSplitFrom(line, k + 1, Append(cur, line[k]), out)

RECURSIVE ReSplitFrom_Fixed(_, _, _, _)
ReSplitFrom_Fixed(line, k, cur, out) ==
  IF k > Len(line) THEN Append(out, cur)
  ELSE IF IsSpace(line[k])
       THEN IF RunLen(line, k) >= GapLen
            THEN ReSplitFrom_Fixed(line, k + GapLen, << >>, Append(out, cur))
            ELSE ReSplitFrom_Fixed(line, k + RunLen(line, k),
                                   cur \o SubSeq(line, k, k + RunLen(line, k) - 1), out)
       ELSE ReSplitFrom_Fixed(line, k + 1, Append(cur, line[k]), out)

ReSplit_Fixed(line) == ReSplitFrom_Fixed(line, 1, << >>, << >>)

ReSplit(line) == ReSplitFrom(line, 1, << >>, << >>)

\* re.search(":", s): the tip marker CHEF'S TIP: holds a colon itself
HasColon(s) == \E k \in 1..Len(s) : s[k] \in {":", "T"}

(***************************************************************************)
(* The acceptance filter, lines 38-48.                                     *)
(***************************************************************************)
TooShort(text) == PyLen(text) < MinLength

\* the lookahead (?=.*word) at position p: word occurs at or after p with no
\* newline between p and it ("." does not match a newline)
Lookahead(text, p, word) ==
  \E q \in p..Len(text) :
    /\ text[q] = word
    /\ \A r \in p..(q - 1) : text[r] # NL

PatternSearch_FirstOnly(text) ==
  \E p \in 1..(Len(text) + 1) : Lookahead(text, p, "I")

\* pattern.search(text) for (?=.*INGREDIENTS)(?=.*METHOD)
PatternSearch(text) ==
  \E p \in 1..(Len(text) + 1) : Lookahead(text, p, "I") /\ Lookahead(text, p, "M")

Accepts(text) == ~TooShort(text) /\ PatternSearch(text)

(***************************************************************************)
(* The line loop, lines 51-67.                                             *)
(***************************************************************************)
InHeader_Early(line_idx) == line_idx < HeaderEnd - 1

InHeader(line_idx) == line_idx < HeaderEnd

InBody(line_idx) == line_idx >= HeaderEnd /\ line_idx < BodyEnd

\* line_parts != ['']
NotBlank(line_parts) == line_parts # << << >> >>

HeaderLine_Prepend(acc, line_parts) ==
  [acc EXCEPT
     !.recipe_header = line_parts[1] \o <<SP>> \o @,
     !.serving_suggestion =
        IF Len(line_parts) > 1 THEN line_parts[2] \o <<SP>> \o @ ELSE @]

HeaderLine(acc, line_parts) ==
  [acc EXCEPT
     !.recipe_header = @ \o line_parts[1] \o <<SP>>,
     !.serving_suggestion =
        IF Len(line_parts) > 1 THEN @ \o line_parts[2] \o <<SP>> ELSE @]

MethodPart_NoLead(method, part) ==
  IF HasColon(part) THEN method \o part \o <<NL>>
  ELSE method \o part \o <<SP>>

MethodPart(method, part) ==
  IF HasColon(part) THEN method \o <<NL>> \o part \o <<NL>>
  ELSE method \o part \o <<SP>>

BodyLine(acc, line_parts) ==
  [acc EXCEPT
     !.ingredients = @ \o line_parts[1] \o <<NL>>,
     !.method = IF Len(line_parts) > 1 THEN MethodPart(@, line_parts[2]) ELSE @]

ParseLine(acc, line_idx, line) ==
  IF InHeader(line_idx) /\ NotBlank(ReSplit(line)) THEN HeaderLine(acc, ReSplit(line))
  ELSE IF InBody(line_idx) /\ NotBlank(ReSplit(line)) THEN BodyLine(acc, ReSplit(line))
  ELSE acc

\* the loop over enumerate(text.split('\n')), from the line with index k - 1 on
RECURSIVE ParseFrom(_, _, _)
ParseFrom(acc, lines, k) ==
  IF k > Len(lines) THEN acc
  ELSE ParseFrom(ParseLine(acc, k - 1, lines[k]), lines, k + 1)

ParseLines(acc, text) == ParseFrom(acc, SplitLines(text), 1)

(***************************************************************************)
(* Post-processing, lines 69-76.                                           *)
(***************************************************************************)
CleanIngredients(ingredients) == Strip(Remove(ingredients, "I"))

SplitTip(method) == Partition(method, "T")

CleanMethod_StripFirst(method) == Remove(Strip(SplitTip(method)[1]), "M")

CleanMethod(method) == Strip(Remove(SplitTip(method)[1], "M"))

CleanTip(method) ==
  IF SplitTip(method)[2] THEN Strip(NewlinesToSpaces(SplitTip(method)[3]))
  ELSE SplitTip(method)[3]

PostProcess(acc) ==
  [acc EXCEPT
     !.ingredients = CleanIngredients(acc.ingredients),
     !.method = CleanMethod(acc.method),
     !.chef_tip = CleanTip(acc.method)]

(***************************************************************************)
(* int(doc.metadata["page_label"]) and the category chain, lines 82-97.    *)
(* A label is an int (isInt, num) or a str (str, a sequence of characters).*)
(***************************************************************************)
Digits == <<"0", "1", "2", "3", "4", "5", "6", "7", "8", "9">>

IsDigit(c) == \E d \in 1..Len(Digits) : Digits[d] = c

DigitVal(c) == (CHOOSE d \in 1..Len(Digits) : Digits[d] = c) - 1

RECURSIVE DigitsVal(_, _)
DigitsVal(s, sofar) ==
  IF s = << >> THEN sofar ELSE DigitsVal(Tail(s), sofar * Len(Digits) + DigitVal(Head(s)))

AllDigits(s) == s # << >> /\ \A k \in 1..Len(s) : IsDigit(s[k])

\* int() of a str: surrounding whitespace dropped, an optional sign, then
\* decimal digits; anything else is a ValueError
ParseInt(s) ==
  IF Strip(s) # << >> /\ Head(Strip(s)) \in {"-", "+"}
  THEN [ok |-> AllDigits(Tail(Strip(s))),
        val |-> IF AllDigits(Tail(Strip(s)))
                THEN (IF Head(Strip(s)) = "-" THEN -1 ELSE 1) * DigitsVal(Tail(Strip(s)), 0)
                ELSE 0]
  ELSE [ok |-> AllDigits(Strip(s)),
        val |-> IF AllDigits(Strip(s)) THEN DigitsVal(Strip(s), 0) ELSE 0]

PyInt(label) == IF label.isInt THEN [ok |-> TRUE, val |-> label.num] ELSE ParseInt(label.str)

PageLabelInt_Page(md) == [ok |-> TRUE, val |-> md.page]

\* int(doc.metadata["page_label"])
PageLabelInt(md) == PyInt(md.page_label)

Categorize_Inclusive(page_label) ==
  IF page_label <= 28 THEN "STARTERS & SALADS"
  ELSE IF page_label <= 51 THEN "LIGHT MEALS"
  ELSE IF page_label <= 92 THEN "MAIN MEALS"
  ELSE IF page_label <= 110 THEN "GOURMET DOGS"
  ELSE IF page_label <= 128 THEN "BURGERS"
  ELSE IF page_label >= 135 THEN "DESSERT & BAKING"
  ELSE "COLD SAUCES"

Categorize(page_label) ==
  IF page_label < 28 THEN "STARTERS & SALADS"
  ELSE IF page_label < 51 THEN "LIGHT MEALS"
  ELSE IF page_label < 92 THEN "MAIN MEALS"
  ELSE IF page_label < 110 THEN "GOURMET DOGS"
  ELSE IF page_label < 128 THEN "BURGERS"
  ELSE IF page_label >= 135 THEN "DESSERT & BAKING"
  ELSE "COLD SAUCES"

(***************************************************************************)
(* Metadata (a dict) and the recipe chunk, lines 78-107.                   *)
(***************************************************************************)
\* d[k] = v
SetItem(d, k, v) == (k :> v) @@ d

NameMetadata(md, acc) ==
  SetItem(SetItem(md, "recipe_name", Strip(acc.recipe_header)),
          "serving_suggestion", Strip(acc.serving_suggestion))

TypeMetadata_Relabel(md, category) ==
  SetItem(SetItem(md, "recipe_type", category), "page_label",
          [isInt |-> TRUE, num |-> PyInt(md.page_label).val, str |-> EmptyStr])

TypeMetadata(md, category) == SetItem(md, "recipe_type", category)

\* the chunk shares the page's metadata dict: doc is the index of that page
Chunk(acc, doc) ==
  [recipe_header |-> Strip(acc.recipe_header),
   serving_suggestion |-> Strip(acc.serving_suggestion),
   ingredients |-> acc.ingredients,
   method |-> acc.method,
   chef_tip |-> acc.chef_tip,
   doc |-> doc]

AppendChunk_Front(chunks, chunk) == <<chunk>> \o chunks

AppendChunk(chunks, chunk) == Append(chunks, chunk)

\* before the first iteration no accumulator is bound yet
Unassigned ==
  [recipe_header |-> EmptyStr, serving_suggestion |-> EmptyStr,
   ingredients |-> EmptyStr, method |-> EmptyStr, chef_tip |-> EmptyStr]

ResetAccumulators_Stale == locals

\* lines 30-34, at the top of every iteration
ResetAccumulators ==
  [recipe_header |-> EmptyStr, serving_suggestion |-> EmptyStr,
   ingredients |-> EmptyStr, method |-> EmptyStr, chef_tip |-> EmptyStr]

(***************************************************************************)
(* Input pages: what load_pdf_documents hands over, one Document per page  *)
(* with page_content and metadata {page, page_label}.                      *)
(***************************************************************************)
StrLabel(s) == [isInt |-> FALSE, num |-> 0, str |-> s]

IntLabel(n) == [isInt |-> TRUE, num |-> n, str |-> EmptyStr]

Document(text, page, label) ==
  [page_content |-> text, metadata |-> [page |-> page, page_label |-> label]]

RECURSIVE NatToStr(_)
NatToStr(n) ==
  IF n < Len(Digits) THEN <<Digits[n + 1]>>
  ELSE NatToStr(n \div Len(Digits)) \o <<Digits[(n % Len(Digits)) + 1]>>

\* str(n)
IntToStr(n) == IF n < 0 THEN <<"-">> \o NatToStr(-n) ELSE NatToStr(n)

RECURSIVE JoinLines(_)
JoinLines(lines) ==
  IF Len(lines) = 1 THEN lines[1] ELSE lines[1] \o <<NL>> \o JoinLines(Tail(lines))

Gap == <<SP, SP, SP>>

\* whole small pages
Text99 == <<"W", "W", "I", "M">>
TextNoMethod == <<"W", SP, "W", SP, "W", SP, "I">>
TextSplit == JoinLines(<< <<"W", SP, "I">>, <<"W", SP, "M">>, <<"W">> >>)
TextFull ==
  JoinLines(<< <<"W">> \o Gap \o <<"a">>, << >>, << >>, << >>, << >>,
               <<"I">> \o Gap \o <<"M">>,
               <<"a">> \o Gap \o <<"W">>,
               <<"W">> \o Gap \o <<"T", SP, "a">> >>)
TextBare == Gap \o <<"W", SP, "W", SP, "I", SP, "M">>

\* pages the filter turns away carry a label int() does not take; pages it
\* lets through carry every label and page number
TurnedAwayTexts == {Text99, TextNoMethod, TextSplit}

LetThroughTexts == {TextFull, TextBare}

SmallLabels ==
  {StrLabel(<<"1", "2">>), IntLabel(12), StrLabel(<<"1", "3", "0">>), StrLabel(<<"i", "v">>)}

PageNumbers == {0, 130}

SmallPages ==
  {Document(t, 0, StrLabel(<<"i", "v">>)) : t \in TurnedAwayTexts}
    \cup {Document(t, n, l) : t \in LetThroughTexts, n \in PageNumbers, l \in SmallLabels}

RECURSIVE SeqsUpTo(_, _)
SeqsUpTo(S, n) ==
  IF n = 0 THEN {<< >>}
  ELSE SeqsUpTo(S, n - 1) \cup {Append(q, x) : q \in {r \in SeqsUpTo(S, n - 1) : Len(r) = n - 1}, x \in S}

\* laid-out pages: a line in each of the slots around the two window ends,
\* blank lines everywhere else
LineBlank == << >>
LineWord == <<"W">>
LineHeads == <<"I">> \o Gap \o <<"M">>
LineSub == <<"W", SP, SP, TAB, "M", SP, "a", ":">>
LineTip == <<"a">> \o Gap \o <<"M", SP, "W", SP, "T", SP, "a">>
LineLead == Gap \o <<"W">>
LineThree == <<"a", SP, "a">> \o Gap \o <<"W">> \o Gap \o <<"a">>
LineTwo == <<SP, SP>>

LinePool == {LineBlank, LineWord, LineHeads, LineSub, LineTip, LineLead, LineThree, LineTwo}

TailPool == {LineBlank, LineHeads, LineWord}

Layout(l0, l4, l5, l44, l45) ==
  JoinLines([k \in 1..(BodyEnd + 1) |->
               CASE k - 1 = 0 -> l0
                 [] k - 1 = HeaderEnd - 1 -> l4
                 [] k - 1 = HeaderEnd -> l5
                 [] k - 1 = BodyEnd - 1 -> l44
                 [] k - 1 = BodyEnd -> l45
                 [] OTHER -> LineBlank])

LayoutTexts ==
  {Layout(l0, l4, l5, l44, l45) :
     l0 \in LinePool, l4 \in LinePool, l5 \in LinePool, l44 \in LinePool, l45 \in TailPool}

LayoutPages ==
  {Document(t, 0, StrLabel(<<"1", "2">>)) : t \in LayoutTexts \cup {Text99}}
    \cup {Document(TextFull, 0, StrLabel(<<"i", "v">>)),
          Document(Layout(LineThree, LineBlank, LineHeads, LineWord, LineWord), 0,
                   StrLabel(<<"i", "v">>))}

\* pages for the category table: every label from -PMin to PMax, as a str
\* and as an int, and labels int() does not take
CatLabels ==
  {StrLabel(IntToStr(p)) : p \in (-PMin)..PMax}
    \cup {IntLabel(p) : p \in (-PMin)..PMax}
    \cup {StrLabel(<<SP, "1", "2", NL>>), StrLabel(<<"+", "5", "1">>),
          StrLabel(EmptyStr), StrLabel(<<"i", "v">>), StrLabel(<<"1", "-", "2">>)}

CatPages == {Document(t, 0, l) : t \in {Text99, TextNoMethod, TextFull}, l \in CatLabels}

\* one-line pages: every line of up to MaxLineLen letters and spaces, and
\* of up to MaxTabLineLen letters, spaces and tabs, as line 0 of a page the
\* filter lets through
RECURSIVE SeqsOver(_, _)
SeqsOver(S, n) ==
  IF n = 0 THEN {<< >>}
  ELSE {<< >>} \cup {<<x>> \o q : x \in S, q \in SeqsOver(S, n - 1)}

GenLines ==
  SeqsOver({"a", SP}, MaxLineLen) \cup SeqsOver({"a", SP, TAB}, MaxTabLineLen) \cup LinePool

Filler == <<"W", SP, "W", SP, "I", SP, "M">>

LinePages ==
  {Document(line \o <<NL>> \o Filler, 0, StrLabel(<<"1", "2">>)) : line \in GenLines}
    \cup {Document(Text99, 0, StrLabel(<<"1", "2">>)),
          Document(TextNoMethod, 0, StrLabel(<<"1", "2">>)),
          Document(TextFull, 0, StrLabel(<<"i", "v">>))}

(***************************************************************************)
(* split_into_chunks as a state machine.  i counts the pages the for loop  *)
(* has taken; pc is the position in the loop body.                         *)
(***************************************************************************)
TypeOK ==
  /\ i \in 0..Len(documents)
  /\ pc \in {"loop", "parse", "finish", "returned", "raised"}
  /\ Len(documents) = Len(documents0)

(***************************************************************************)
(* upload_recipes (vector_store.py).  A recipe chunk is "ok" when the try  *)
(* block builds its vector and "bad" when building it raises; a vector is  *)
(* named by the position of its recipe in the list.                        *)
(***************************************************************************)
MaxRecipes == 4
MaxBatch == 3

RecipeKinds == {"ok", "bad"}

UploadInputs == SeqsOver(RecipeKinds, MaxRecipes)

\* lines 149-176: the try block up to vectors_to_upsert.append
Builds(recipe) == recipe = "ok"

\* line 183 with the mistake of leaving the batch in place
AfterUpsert_Keep(batch) == batch

\* line 183: vectors_to_upsert = []
AfterUpsert(batch) == << >>

UpsertCall(batch, ok) == [vectors |-> batch, ok |-> ok]

(***************************************************************************)
(* interactive_mode (rag_system.py).  A typed line is a sequence of        *)
(* tokens: "filter:" in three spellings, the letter q in two cases, the    *)
(* words quit and exit in two cases, "|", and white space.                 *)
(***************************************************************************)
MaxInput == 3

LoopTokens == {"q", "Q", "|", SP, "filter:", "Filter:", "FILTER:"}

WordLines ==
  {<<"quit">>, <<"exit">>, <<"QUIT">>, <<"Exit">>, <<SP, "quit", SP>>,
   <<"quit", SP, "q">>, <<"exit", SP, "Filter:", "q">>,
   <<"q", SP, "|", SP, "q", SP, "filter:", SP, "q">>,
   <<"q", "|", "Q", SP, "Filter:", "q", SP, "q">>}

InputLines == SeqsOver(LoopTokens, MaxInput) \cup WordLines

\* str.lower() and str.upper(), token by token
LowerTok(t) ==
  CASE t = "Q" -> "q"
    [] t \in {"Filter:", "FILTER:"} -> "filter:"
    [] t = "QUIT" -> "quit"
    [] t = "Exit" -> "exit"
    [] OTHER -> t

UpperTok(t) ==
  CASE t = "q" -> "Q"
    [] t \in {"filter:", "Filter:"} -> "FILTER:"
    [] t = "quit" -> "QUIT"
    [] t \in {"exit", "Exit"} -> "EXIT"
    [] OTHER -> t

Lower(s) == [k \in 1..Len(s) |-> LowerTok(s[k])]

Upper(s) == [k \in 1..Len(s) |-> UpperTok(s[k])]

\* line 225: the words that end the loop
QuitWords == {<<"quit">>, <<"exit">>, <<"q">>}

\* str.split(sep, 1): one part when sep is not in s, else the text before
\* and the text after its first occurrence
SplitOnce(s, sep) ==
  IF HasTok(s, sep)
  THEN <<SubSeq(s, 1, FirstIndex(s, sep) - 1), SubSeq(s, FirstIndex(s, sep) + 1, Len(s))>>
  ELSE <<s>>

\* a str or None
None == [none |-> TRUE, str |-> << >>]
Some(s) == [none |-> FALSE, str |-> s]

NoCall == [made |-> FALSE, ingredients |-> << >>, additional_request |-> None,
           recipe_type |-> None]

\* lines 249-254: self.query(ingredients, additional_request, top_k=5, recipe_type)
QueryCall(ingredients, additional_request, recipe_type) ==
  [made |-> TRUE, ingredients |-> ingredients,
   additional_request |-> additional_request, recipe_type |-> recipe_type]

\* line 238: 'filter:' in user_input.lower()
HasFilter(u) == HasTok(Lower(u), "filter:")

\* lines 239-241: parts[1] raises IndexError when split gave one part
FilterParts(u) == SplitOnce(u, "filter:")

FilterRaises(u) == HasFilter(u) /\ Len(FilterParts(u)) < 2

AfterFilter(u) == IF HasFilter(u) THEN Strip(FilterParts(u)[1]) ELSE u

RecipeType(u) == IF HasFilter(u) THEN Some(Upper(Strip(FilterParts(u)[2]))) ELSE None

\* lines 244-249: the additional request after "|"
Ingredients(u) ==
  IF HasTok(u, "|") THEN Strip(SplitOnce(u, "|")[1]) ELSE u

AdditionalRequest(u) ==
  IF HasTok(u, "|") THEN Some(Strip(SplitOnce(u, "|")[2])) ELSE None

\* lines 234-254 for a line that is no quit word, not empty and does not raise
ParsedCall(u) ==
  QueryCall(Ingredients(AfterFilter(u)), AdditionalRequest(AfterFilter(u)), RecipeType(u))

\* upload_recipes not called
UploadIdle ==
  /\ index = FALSE
  /\ upload_chunks = << >>
  /\ batch_size = 1
  /\ upload_i = 0
  /\ vectors_to_upsert = << >>
  /\ successful_uploads = 0
  /\ upserts = << >>
  /\ upc = "idle"

\* interactive_mode not called
LoopIdle ==
  /\ event = "none"
  /\ line_in = << >>
  /\ user_input = << >>
  /\ call = NoCall
  /\ lpc = "idle"

Start(docs) ==
  /\ documents = docs
  /\ documents0 = docs
  /\ i = 0
  /\ pc = "loop"
  /\ locals = Unassigned
  /\ recipe_chunks = << >>
  /\ UploadIdle
  /\ LoopIdle

Init == \E docs \in SeqsUpTo(SmallPages, MaxPages) : Start(docs)

InitPage == \E d \in LayoutPages : Start(<<d>>)

InitCat == \E d \in CatPages : Start(<<d>>)

InitLine == \E d \in LinePages : Start(<<d>>)

\* lines 28-40: next page, accumulators reset, page too short
SkipShort ==
  /\ pc = "loop"
  /\ i < Len(documents)
  /\ TooShort(documents[i + 1].page_content)
  /\ i' = i + 1
  /\ locals' = ResetAccumulators
  /\ UNCHANGED <<documents, documents0, pc, recipe_chunks, uploadVars, loopVars>>

\* lines 28-48: next page, accumulators reset, markers not found
SkipNoMarkers ==
  /\ pc = "loop"
  /\ i < Len(documents)
  /\ ~TooShort(documents[i + 1].page_content)
  /\ ~PatternSearch(documents[i + 1].page_content)
  /\ i' = i + 1
  /\ locals' = ResetAccumulators
  /\ UNCHANGED <<documents, documents0, pc, recipe_chunks, uploadVars, loopVars>>

\* lines 28-48: next page, accumulators reset, page accepted
AcceptPage ==
  /\ pc = "loop"
  /\ i < Len(documents)
  /\ Accepts(documents[i + 1].page_content)
  /\ i' = i + 1
  /\ locals' = ResetAccumulators
  /\ pc' = "parse"
  /\ UNCHANGED <<documents, documents0, recipe_chunks, uploadVars, loopVars>>

\* lines 51-67: the line loop adds to the accumulators
ParsePage ==
  /\ pc = "parse"
  /\ locals' = ParseLines(locals, documents[i].page_content)
  /\ pc' = "finish"
  /\ UNCHANGED <<documents, documents0, i, recipe_chunks, uploadVars, loopVars>>

\* lines 69-107 when int() takes the label
FinishChunk ==
  /\ pc = "finish"
  /\ PageLabelInt(documents[i].metadata).ok
  /\ locals' = PostProcess(locals)
  /\ documents' =
       [documents EXCEPT ![i].metadata =
          TypeMetadata(NameMetadata(@, locals),
                       Categorize(PageLabelInt(documents[i].metadata).val))]
  /\ recipe_chunks' = AppendChunk(recipe_chunks, Chunk(PostProcess(locals), i))
  /\ pc' = "loop"
  /\ UNCHANGED <<documents0, i, uploadVars, loopVars>>

\* lines 69-83 when int() raises ValueError: the call ends, nothing is returned
FinishRaise ==
  /\ pc = "finish"
  /\ ~PageLabelInt(documents[i].metadata).ok
  /\ locals' = PostProcess(locals)
  /\ documents' = [documents EXCEPT ![i].metadata = NameMetadata(@, locals)]
  /\ pc' = "raised"
  /\ UNCHANGED <<documents0, i, recipe_chunks, uploadVars, loopVars>>

\* line 109
Return ==
  /\ pc = "loop"
  /\ i = Len(documents)
  /\ pc' = "returned"
  /\ UNCHANGED <<documents, documents0, i, locals, recipe_chunks, uploadVars, loopVars>>

Next ==
  \/ SkipShort
  \/ SkipNoMarkers
  \/ AcceptPage
  \/ ParsePage
  \/ FinishChunk
  \/ FinishRaise
  \/ Return

Spec == Init /\ [][Next]_vars

SpecPage == InitPage /\ [][Next]_vars

SpecCat == InitCat /\ [][Next]_vars

SpecLine == InitLine /\ [][Next]_vars

(***************************************************************************)
(* upload_recipes as a state machine.  upload_i counts the recipes the for *)
(* loop has taken; upserts is the list of the calls of index.upsert, each  *)
(* with the batch it was given and whether it succeeded.                   *)
(***************************************************************************)
PdfIdle ==
  /\ documents = << >>
  /\ documents0 = << >>
  /\ i = 0
  /\ pc = "returned"
  /\ locals = Unassigned
  /\ recipe_chunks = << >>

InitUpload ==
  /\ PdfIdle
  /\ LoopIdle
  /\ index \in BOOLEAN
  /\ upload_chunks \in UploadInputs
  /\ batch_size \in 1..MaxBatch
  /\ upload_i = 0
  /\ vectors_to_upsert = << >>
  /\ successful_uploads = 0
  /\ upserts = << >>
  /\ upc = "start"

\* lines 138-140: no index, return
UploadNotConnected ==
  /\ upc = "start"
  /\ ~index
  /\ upc' = "returned_none"
  /\ UNCHANGED <<index, upload_chunks, batch_size, upload_i, vectors_to_upsert,
                 successful_uploads, upserts>>
  /\ UNCHANGED <<pdfVars, loopVars>>

\* lines 142-145
UploadBegin ==
  /\ upc = "start"
  /\ index
  /\ vectors_to_upsert' = << >>
  /\ successful_uploads' = 0
  /\ upc' = "loop"
  /\ UNCHANGED <<index, upload_chunks, batch_size, upload_i, upserts>>
  /\ UNCHANGED <<pdfVars, loopVars>>

\* lines 147-176, 185-187: building the vector raises, the recipe is passed over
RecipeRaises ==
  /\ upc = "loop"
  /\ upload_i < Len(upload_chunks)
  /\ ~Builds(upload_chunks[upload_i + 1])
  /\ upload_i' = upload_i + 1
  /\ UNCHANGED <<index, upload_chunks, batch_size, vectors_to_upsert,
                 successful_uploads, upserts, upc>>
  /\ UNCHANGED <<pdfVars, loopVars>>

\* lines 147-179: the vector joins a batch that is not full yet
RecipeBatched ==
  /\ upc = "loop"
  /\ upload_i < Len(upload_chunks)
  /\ Builds(upload_chunks[upload_i + 1])
  /\ Len(vectors_to_upsert) + 1 < batch_size
  /\ upload_i' = upload_i + 1
  /\ vectors_to_upsert' = Append(vectors_to_upsert, upload_i + 1)
  /\ UNCHANGED <<index, upload_chunks, batch_size, successful_uploads, upserts, upc>>
  /\ UNCHANGED <<pdfVars, loopVars>>

\* lines 147-183: the vector fills the batch, the upsert succeeds
RecipeUpserted ==
  /\ upc = "loop"
  /\ upload_i < Len(upload_chunks)
  /\ Builds(upload_chunks[upload_i + 1])
  /\ Len(vectors_to_upsert) + 1 >= batch_size
  /\ upload_i' = upload_i + 1
  /\ upserts' = Append(upserts, UpsertCall(Append(vectors_to_upsert, upload_i + 1), TRUE))
  /\ successful_uploads' = successful_uploads + Len(vectors_to_upsert) + 1
  /\ vectors_to_upsert' = AfterUpsert(Append(vectors_to_upsert, upload_i + 1))
  /\ UNCHANGED <<index, upload_chunks, batch_size, upc>>
  /\ UNCHANGED <<pdfVars, loopVars>>

\* lines 147-180, 185-187: the upsert of the full batch raises, the except
\* clause takes it and the batch stays
RecipeUpsertRaises ==
  /\ upc = "loop"
  /\ upload_i < Len(upload_chunks)
  /\ Builds(upload_chunks[upload_i + 1])
  /\ Len(vectors_to_upsert) + 1 >= batch_size
  /\ upload_i' = upload_i + 1
  /\ upserts' = Append(upserts, UpsertCall(Append(vectors_to_upsert, upload_i + 1), FALSE))
  /\ vectors_to_upsert' = Append(vectors_to_upsert, upload_i + 1)
  /\ UNCHANGED <<index, upload_chunks, batch_size, successful_uploads, upc>>
  /\ UNCHANGED <<pdfVars, loopVars>>

\* line 190: nothing is left after the loop
TailEmpty ==
  /\ upc = "loop"
  /\ upload_i = Len(upload_chunks)
  /\ vectors_to_upsert = << >>
  /\ upc' = "verify"
  /\ UNCHANGED <<index, upload_chunks, batch_size, upload_i, vectors_to_upsert,
                 successful_uploads, upserts>>
  /\ UNCHANGED <<pdfVars, loopVars>>

\* lines 190-192: the rest is upserted
TailUpserted ==
  /\ upc = "loop"
  /\ upload_i = Len(upload_chunks)
  /\ vectors_to_upsert # << >>
  /\ upserts' = Append(upserts, UpsertCall(vectors_to_upsert, TRUE))
  /\ successful_uploads' = successful_uploads + Len(vectors_to_upsert)
  /\ upc' = "verify"
  /\ UNCHANGED <<index, upload_chunks, batch_size, upload_i, vectors_to_upsert>>
  /\ UNCHANGED <<pdfVars, loopVars>>

\* line 191 outside any try: the upsert of the rest raises, the call ends
TailUpsertRaises ==
  /\ upc = "loop"
  /\ upload_i = Len(upload_chunks)
  /\ vectors_to_upsert # << >>
  /\ upserts' = Append(upserts, UpsertCall(vectors_to_upsert, FALSE))
  /\ upc' = "raised"
  /\ UNCHANGED <<index, upload_chunks, batch_size, upload_i, vectors_to_upsert,
                 successful_uploads>>
  /\ UNCHANGED <<pdfVars, loopVars>>

\* lines 194-204: the statistics are read, the count is returned
VerifyReturn ==
  /\ upc = "verify"
  /\ upc' = "returned"
  /\ UNCHANGED <<index, upload_chunks, batch_size, upload_i, vectors_to_upsert,
                 successful_uploads, upserts>>
  /\ UNCHANGED <<pdfVars, loopVars>>

\* line 201: describe_index_stats raises, the call ends
VerifyRaises ==
  /\ upc = "verify"
  /\ upc' = "raised"
  /\ UNCHANGED <<index, upload_chunks, batch_size, upload_i, vectors_to_upsert,
                 successful_uploads, upserts>>
  /\ UNCHANGED <<pdfVars, loopVars>>

NextUpload ==
  \/ UploadNotConnected
  \/ UploadBegin
  \/ RecipeRaises
  \/ RecipeBatched
  \/ RecipeUpserted
  \/ RecipeUpsertRaises
  \/ TailEmpty
  \/ TailUpserted
  \/ TailUpsertRaises
  \/ VerifyReturn
  \/ VerifyRaises

SpecUpload == InitUpload /\ [][NextUpload]_vars

(***************************************************************************)
(* interactive_mode as a state machine.  lpc is the position in one turn   *)
(* of the while loop; the names of a turn are assigned again before they   *)
(* are read in the next turn, so they are cleared at the top of the loop.  *)
(***************************************************************************)
InitLoop ==
  /\ PdfIdle
  /\ UploadIdle
  /\ event = "none"
  /\ line_in = << >>
  /\ user_input = << >>
  /\ call = NoCall
  /\ lpc = "prompt"

\* back at the top of the while loop
Cleared ==
  /\ event' = "none"
  /\ line_in' = << >>
  /\ user_input' = << >>
  /\ call' = NoCall
  /\ lpc' = "prompt"

\* line 223: input() gives a line, strip() trims it
ReadLine ==
  /\ lpc = "prompt"
  /\ \E typed \in InputLines :
       /\ line_in' = typed
       /\ user_input' = Strip(typed)
  /\ event' = "line"
  /\ lpc' = "read"
  /\ UNCHANGED call
  /\ UNCHANGED <<pdfVars, uploadVars>>

\* lines 223, 265-267: Ctrl-C at the prompt, the loop ends
ReadInterrupt ==
  /\ lpc = "prompt"
  /\ event' = "interrupt"
  /\ lpc' = "ended"
  /\ UNCHANGED <<line_in, user_input, call>>
  /\ UNCHANGED <<pdfVars, uploadVars>>

\* lines 223, 268-269: input() raises EOFError, the handler prints it
ReadEof ==
  /\ lpc = "prompt"
  /\ event' = "eof"
  /\ lpc' = "caught"
  /\ UNCHANGED <<line_in, user_input, call>>
  /\ UNCHANGED <<pdfVars, uploadVars>>

\* lines 225-227: a quit word, break
Quit ==
  /\ lpc = "read"
  /\ Lower(user_input) \in QuitWords
  /\ lpc' = "ended"
  /\ UNCHANGED <<event, line_in, user_input, call>>
  /\ UNCHANGED <<pdfVars, uploadVars>>

\* lines 229-230: nothing typed, continue
EmptyInput ==
  /\ lpc = "read"
  /\ Lower(user_input) \notin QuitWords
  /\ user_input = << >>
  /\ Cleared
  /\ UNCHANGED <<pdfVars, uploadVars>>

\* lines 238-241, 268-269: parts[1] raises IndexError, the handler prints it
ParseRaises ==
  /\ lpc = "read"
  /\ Lower(user_input) \notin QuitWords
  /\ user_input # << >>
  /\ FilterRaises(user_input)
  /\ lpc' = "caught"
  /\ UNCHANGED <<event, line_in, user_input, call>>
  /\ UNCHANGED <<pdfVars, uploadVars>>

\* lines 233-254: the line is taken apart and self.query is called
IssueQuery ==
  /\ lpc = "read"
  /\ Lower(user_input) \notin QuitWords
  /\ user_input # << >>
  /\ ~FilterRaises(user_input)
  /\ user_input' = AfterFilter(user_input)
  /\ call' = ParsedCall(user_input)
  /\ lpc' = "query"
  /\ UNCHANGED <<event, line_in>>
  /\ UNCHANGED <<pdfVars, uploadVars>>

\* lines 256-261: the answer is printed, the loop goes on
QueryReturns ==
  /\ lpc = "query"
  /\ Cleared
  /\ UNCHANGED <<pdfVars, uploadVars>>

\* lines 249-254, 268-269: self.query raises, the handler prints it
QueryRaises ==
  /\ lpc = "query"
  /\ lpc' = "caught"
  /\ UNCHANGED <<event, line_in, user_input, call>>
  /\ UNCHANGED <<pdfVars, uploadVars>>

\* lines 249-254, 265-267: Ctrl-C during the query, the loop ends
QueryInterrupt ==
  /\ lpc = "query"
  /\ event' = "interrupt"
  /\ lpc' = "ended"
  /\ UNCHANGED <<line_in, user_input, call>>
  /\ UNCHANGED <<pdfVars, uploadVars>>

\* line 269: after the message the loop goes on
Reprompt ==
  /\ lpc = "caught"
  /\ Cleared
  /\ UNCHANGED <<pdfVars, uploadVars>>

NextLoop ==
  \/ ReadLine
  \/ ReadInterrupt
  \/ ReadEof
  \/ Quit
  \/ EmptyInput
  \/ ParseRaises
  \/ IssueQuery
  \/ QueryReturns
  \/ QueryRaises
  \/ QueryInterrupt
  \/ Reprompt

SpecLoop == InitLoop /\ [][NextLoop]_vars

(***************************************************************************)
(* Properties.                                                             *)
(***************************************************************************)
\* page k has been dealt with: skipped, or its chunk appended
Done(k) == k < i \/ (k = i /\ pc \in {"loop", "returned"})

HasChunk(k) == \E n \in 1..Len(recipe_chunks) : recipe_chunks[n].doc = k

ContainsBoth(text) == HasTok(text, "I") /\ HasTok(text, "M")

\* C1: every page of 100 or more characters that contains INGREDIENTS and
\* METHOD anywhere, on one line or on different lines, yields a record.
C1_ContainmentSuffices ==
  pc = "returned" =>
    \A k \in 1..Len(documents) :
      (PyLen(documents0[k].page_content) >= 100 /\ ContainsBoth(documents0[k].page_content))
        => HasChunk(k)

\* C2: a page shorter than 100 characters, or without INGREDIENTS, or
\* without METHOD, yields no record, is never parsed and never ends the pass
\* with an error; the loop goes on to the next page.
C2_RejectNecessary ==
  \A k \in 1..Len(documents) :
    (PyLen(documents0[k].page_content) < 100 \/ ~ContainsBoth(documents0[k].page_content))
      => /\ ~HasChunk(k)
         /\ ~(i = k /\ pc \in {"parse", "finish", "raised"})
         /\ (i = k => pc \in {"loop", "returned"})

C2_Witness ==
  /\ pc = "returned"
  /\ Len(documents) = 2
  /\ PyLen(documents0[1].page_content) = 99
  /\ ContainsBoth(documents0[1].page_content)
  /\ ~ContainsBoth(documents0[2].page_content)
  /\ PyLen(documents0[2].page_content) >= 100
  /\ recipe_chunks = << >>

InTable(p, c) ==
  \/ p < 28 /\ c = "STARTERS & SALADS"
  \/ 28 <= p /\ p < 51 /\ c = "LIGHT MEALS"
  \/ 51 <= p /\ p < 92 /\ c = "MAIN MEALS"
  \/ 92 <= p /\ p < 110 /\ c = "GOURMET DOGS"
  \/ 110 <= p /\ p < 128 /\ c = "BURGERS"
  \/ 128 <= p /\ p < 135 /\ c = "COLD SAUCES"
  \/ p >= 135 /\ c = "DESSERT & BAKING"

Categories ==
  {"STARTERS & SALADS", "LIGHT MEALS", "MAIN MEALS", "GOURMET DOGS", "BURGERS",
   "COLD SAUCES", "DESSERT & BAKING"}

\* C3: for every integer p from -10 to 200, given as an int or as its
\* decimal string, the page is categorised (no error), the category is one of
\* the seven, and it is the one the range table gives for p.
C3_CategoryTable ==
  \A k \in 1..Len(documents) : \A p \in (-PMin)..PMax :
    (documents0[k].metadata.page_label \in {StrLabel(IntToStr(p)), IntLabel(p)})
      => /\ ~(pc = "raised" /\ i = k)
         /\ HasChunk(k) =>
              /\ documents[k].metadata.recipe_type \in Categories
              /\ InTable(p, documents[k].metadata.recipe_type)

C3_Witness ==
  /\ pc = "returned"
  /\ Len(recipe_chunks) = 1
  /\ documents0[1].metadata.page_label = StrLabel(<<"1", "3", "4">>)
  /\ documents[1].metadata.recipe_type = "COLD SAUCES"

\* C4: the extraction pass never raises, whatever the pages' text, number
\* and label (a string or an integer) are.
C4_NeverRaises == pc # "raised"

\* the record a run on the page alone builds: the line loop and the
\* post-processing from empty accumulators
AloneChunk(page) ==
  PostProcess(ParseLines([recipe_header |-> << >>, serving_suggestion |-> << >>,
                          ingredients |-> << >>, method |-> << >>, chef_tip |-> << >>],
                         page.page_content))

\* C5: the record of a page in a run over several pages has the header,
\* serving suggestion, ingredients, method, chef tip and category of the
\* record a run on that page alone builds.
C5_Isolation ==
  \A n \in 1..Len(recipe_chunks) :
    LET r == recipe_chunks[n]
        alone == AloneChunk(documents0[r.doc])
    IN /\ r.recipe_header = Strip(alone.recipe_header)
       /\ r.serving_suggestion = Strip(alone.serving_suggestion)
       /\ r.ingredients = alone.ingredients
       /\ r.method = alone.method
       /\ r.chef_tip = alone.chef_tip
       /\ documents[r.doc].metadata.recipe_type
            = Categorize(PyInt(documents0[r.doc].metadata.page_label).val)

C5_Witness ==
  /\ pc = "returned"
  /\ Len(recipe_chunks) = 2
  /\ recipe_chunks[1].recipe_header # << >>
  /\ recipe_chunks[1].ingredients # << >>
  /\ recipe_chunks[1].method # << >>
  /\ recipe_chunks[1].chef_tip # << >>
  /\ recipe_chunks[2].recipe_header = << >>
  /\ recipe_chunks[2].serving_suggestion # << >>

\* C6: the records stand one-to-one for the pages the filter accepted among
\* the pages dealt with so far, no page has two records, and the records are
\* in the order of their pages.
C6_OrderMultiplicity ==
  /\ \A m, n \in 1..Len(recipe_chunks) :
       m < n => recipe_chunks[m].doc < recipe_chunks[n].doc
  /\ {recipe_chunks[n].doc : n \in 1..Len(recipe_chunks)}
       = {k \in 1..Len(documents) : Done(k) /\ Accepts(documents0[k].page_content)}

C6_Witness ==
  /\ pc = "returned"
  /\ Len(documents) = 2
  /\ Len(recipe_chunks) = 2
  /\ recipe_chunks[1].doc = 1
  /\ recipe_chunks[2].doc = 2
  /\ documents0[1].page_content # documents0[2].page_content

\* the first column fragment of the line holds a non-whitespace character:
\* one that no run of three whitespace characters comes before
FirstFragmentInk(line) ==
  \E j \in 1..Len(line) :
    /\ ~IsSpace(line[j])
    /\ ~\E q \in 1..(j - 3) : IsSpace(line[q]) /\ IsSpace(line[q + 1]) /\ IsSpace(line[q + 2])

HeaderInk(text) ==
  \E k \in 1..Len(SplitLines(text)) : k - 1 < 5 /\ FirstFragmentInk(SplitLines(text)[k])

\* C7 (as stated): the header of every produced record is non-empty.
C7_HeaderNonEmpty ==
  \A n \in 1..Len(recipe_chunks) : recipe_chunks[n].recipe_header # << >>

\* C7 (amended): the header of a produced record is non-empty exactly when
\* one of the first five lines of the page has a first column fragment with a
\* non-whitespace character; otherwise the record has an empty header.
C7_HeaderIffInk ==
  \A n \in 1..Len(recipe_chunks) :
    (recipe_chunks[n].recipe_header # << >>)
      <=> HeaderInk(documents0[recipe_chunks[n].doc].page_content)

C7_Witness ==
  \E n \in 1..Len(recipe_chunks) :
    /\ recipe_chunks[n].recipe_header = << >>
    /\ recipe_chunks[n].serving_suggestion # << >>
    /\ recipe_chunks[n].ingredients # << >>

Spells(label, p) ==
  \/ (label.isInt /\ label.num = p)
  \/ (~label.isInt /\ label.str = IntToStr(p))

TipSplit(acc, method, tip) ==
  IF \E k \in 1..Len(acc) : acc[k] = "T"
  THEN \E k \in 1..Len(acc) :
         /\ acc[k] = "T"
         /\ \A j \in 1..(k - 1) : acc[j] # "T"
         /\ method = Strip(Remove(SubSeq(acc, 1, k - 1), "M"))
         /\ tip = Strip(NewlinesToSpaces(SubSeq(acc, k + 1, Len(acc))))
  ELSE /\ tip = << >>
       /\ method = Strip(Remove(acc, "M"))

FinishStep ==
  pc = "finish" =>
    /\ TipSplit(locals.method, locals'.method, locals'.chef_tip)
    /\ pc' = "loop" =>
         /\ Len(recipe_chunks') = Len(recipe_chunks) + 1
         /\ recipe_chunks'[Len(recipe_chunks')].method = locals'.method
         /\ recipe_chunks'[Len(recipe_chunks')].chef_tip = locals'.chef_tip

\* C9: post-processing splits the accumulated method text at the first
\* CHEF'S TIP: marker: the method is the text before it with METHOD removed,
\* trimmed, the tip the text after it with newlines turned into spaces,
\* trimmed; without the marker the tip is empty and the method the whole
\* text with METHOD removed, trimmed.  The record carries these two values.
C9_ChefTipSplit == [][FinishStep]_vars

C9_Witness ==
  \E n \in 1..Len(recipe_chunks) :
    /\ HasTok(recipe_chunks[n].chef_tip, "T")
    /\ HasTok(recipe_chunks[n].chef_tip, "M")
    /\ ~HasTok(recipe_chunks[n].chef_tip, NL)
    /\ recipe_chunks[n].method = <<"W">>

\* C10 (as stated): after the call has returned every input page is as it
\* was before the call.
C10_PagesUnchanged == pc = "returned" => documents = documents0

RecipeKeys == {"recipe_name", "serving_suggestion", "recipe_type"}

\* C10 (amended): the extractor changes no page's text, page number or page
\* label and removes no metadata entry; a rejected page keeps exactly its
\* entries, and a page that got a record has gained exactly the entries
\* recipe_name, serving_suggestion and recipe_type.
C10_OnlyRecipeMetadata ==
  \A k \in 1..Len(documents) :
    /\ documents[k].page_content = documents0[k].page_content
    /\ DOMAIN documents0[k].metadata \subseteq DOMAIN documents[k].metadata
    /\ DOMAIN documents[k].metadata \subseteq DOMAIN documents0[k].metadata \cup RecipeKeys
    /\ documents[k].metadata.page = documents0[k].metadata.page
    /\ documents[k].metadata.page_label = documents0[k].metadata.page_label
    /\ (Done(k) /\ ~HasChunk(k)) => documents[k] = documents0[k]
    /\ HasChunk(k) =>
         DOMAIN documents[k].metadata = DOMAIN documents0[k].metadata \cup RecipeKeys

C10_Witness ==
  /\ pc = "returned"
  /\ Len(documents) = 2
  /\ ~HasChunk(1)
  /\ HasChunk(2)
  /\ documents[1] = documents0[1]
  /\ documents[2] # documents0[2]
  /\ documents[2].metadata.recipe_name # << >>

Trimmed(s) == s = << >> \/ (~IsSpace(s[1]) /\ ~IsSpace(s[Len(s)]))

\* C11: header, serving suggestion, ingredients, method and chef tip of
\* every record neither begin nor end with a whitespace character, with or
\* without a tip marker on the page.
C11_FieldsTrimmed ==
  \A n \in 1..Len(recipe_chunks) :
    /\ Trimmed(recipe_chunks[n].recipe_header)
    /\ Trimmed(recipe_chunks[n].serving_suggestion)
    /\ Trimmed(recipe_chunks[n].ingredients)
    /\ Trimmed(recipe_chunks[n].method)
    /\ Trimmed(recipe_chunks[n].chef_tip)

C11_Witness ==
  \E n \in 1..Len(recipe_chunks) :
    /\ recipe_chunks[n].recipe_header # << >>
    /\ recipe_chunks[n].serving_suggestion # << >>
    /\ recipe_chunks[n].ingredients # << >>
    /\ recipe_chunks[n].method # << >>
    /\ recipe_chunks[n].chef_tip # << >>
    /\ HasTok(documents0[recipe_chunks[n].doc].page_content, TAB)

\* position k of the line lies in a run of three or more whitespace characters
InGap(line, k) ==
  \E a \in 1..k : \E b \in k..Len(line) :
    b - a + 1 >= 3 /\ \A x \in a..b : IsSpace(line[x])

GapStarts(line) ==
  {k \in 1..Len(line) : InGap(line, k) /\ (k = 1 \/ ~InGap(line, k - 1))}

GapEnds(line) ==
  {k \in 1..Len(line) : InGap(line, k) /\ (k = Len(line) \/ ~InGap(line, k + 1))}

\* the j-th smallest element of a set of numbers
Nth(S, j) == CHOOSE k \in S : Cardinality({x \in S : x <= k}) = j

\* the fragments between the maximal runs of three or more whitespace
\* characters, the runs themselves left out
Fragments(line) ==
  LET starts == GapStarts(line)
      ends == GapEnds(line)
      gaps == Cardinality(starts)
  IN [j \in 1..(gaps + 1) |->
        SubSeq(line,
               IF j = 1 THEN 1 ELSE Nth(ends, j - 1) + 1,
               IF j = gaps + 1 THEN Len(line) ELSE Nth(starts, j) - 1)]

PageLines(k) == SplitLines(documents0[k].page_content)

SplitAsStated(line) ==
  /\ ReSplit(line) = Fragments(line)
  /\ GapStarts(line) = {} => ReSplit(line) = <<line>>
  /\ (Cardinality(GapStarts(line)) = 1 /\ ~InGap(line, 1) /\ ~InGap(line, Len(line)))
       => /\ Len(ReSplit(line)) = 2
          /\ \E a \in 1..Len(line) : \E b \in a..Len(line) :
               /\ GapStarts(line) = {a}
               /\ GapEnds(line) = {b}
               /\ ReSplit(line)[1] = SubSeq(line, 1, a - 1)
               /\ ReSplit(line)[2] = SubSeq(line, b + 1, Len(line))

\* C12: every line of the page is split at each maximal run of three or more
\* whitespace characters and nowhere else: a line without such a run is one
\* fragment equal to the line, a line with one such run inside it is the two
\* fragments on either side of the run.
C12_ColumnSplit ==
  \A k \in 1..Len(documents) : \A n \in 1..Len(PageLines(k)) :
    SplitAsStated(PageLines(k)[n])

C12_Witness ==
  /\ pc = "finish"
  /\ PageLines(1)[1] = <<"a", SP, SP, "a", SP, SP, SP, SP, "a">>
  /\ locals.recipe_header = <<"a", SP, SP, "a", SP>> \o Filler \o <<SP>>
  /\ locals.serving_suggestion = <<"a", SP>>

\* the col-th fragments of the non-empty lines with index from..to, in line
\* order (lines[k] has index k - 1)
RECURSIVE Column(_, _, _, _)
Column(lines, from, to, col) ==
  IF from > to \/ from + 1 > Len(lines) THEN << >>
  ELSE IF lines[from + 1] = << >> THEN Column(lines, from + 1, to, col)
  ELSE LET frags == Fragments(lines[from + 1])
       IN (IF Len(frags) >= col THEN <<frags[col]>> ELSE << >>)
            \o Column(lines, from + 1, to, col)

\* " ".join(fragments)
RECURSIVE SpaceJoined(_)
SpaceJoined(frags) ==
  IF frags = << >> THEN << >>
  ELSE IF Len(frags) = 1 THEN frags[1]
  ELSE frags[1] \o <<SP>> \o SpaceJoined(Tail(frags))

\* the lines with the ones of index from..to made blank
Blanked(lines, from, to) ==
  [k \in 1..Len(lines) |-> IF from <= k - 1 /\ k - 1 <= to THEN << >> ELSE lines[k]]

\* the record the line loop and the post-processing build from these lines,
\* starting with empty accumulators
ChunkOfLines(lines) ==
  PostProcess(ParseFrom([recipe_header |-> << >>, serving_suggestion |-> << >>,
                         ingredients |-> << >>, method |-> << >>, chef_tip |-> << >>],
                        lines, 1))

\* C13: the header is the trimmed space-joined first fragments of the
\* non-empty lines 0..4, in line order, the serving suggestion the trimmed
\* space-joined second fragments of those lines; the lines 0..4 add nothing
\* to ingredients, method and chef tip.
C13_HeaderBlock ==
  \A n \in 1..Len(recipe_chunks) :
    LET r == recipe_chunks[n]
        lines == PageLines(r.doc)
        body == ChunkOfLines(Blanked(lines, 0, 4))
    IN /\ r.recipe_header = Strip(SpaceJoined(Column(lines, 0, 4, 1)))
       /\ r.serving_suggestion = Strip(SpaceJoined(Column(lines, 0, 4, 2)))
       /\ r.ingredients = body.ingredients
       /\ r.method = body.method
       /\ r.chef_tip = body.chef_tip

C13_Witness ==
  \E n \in 1..Len(recipe_chunks) :
    /\ recipe_chunks[n].recipe_header = <<"a", SP, "a", SP, "W">>
    /\ recipe_chunks[n].serving_suggestion = <<"W", SP, "M", SP, "a", ":">>
    /\ recipe_chunks[n].ingredients # << >>
    /\ recipe_chunks[n].method # << >>

\* every fragment followed by a newline
RECURSIVE EachOnALine(_)
EachOnALine(frags) ==
  IF frags = << >> THEN << >>
  ELSE frags[1] \o <<NL>> \o EachOnALine(Tail(frags))

\* the fragment holds a colon, its own or the one of the tip marker
ColonIn(frag) == \E k \in 1..Len(frag) : frag[k] = ":" \/ frag[k] = "T"

\* every fragment between newlines when it holds a colon, followed by one
\* space when it does not
RECURSIVE Routed(_)
Routed(frags) ==
  IF frags = << >> THEN << >>
  ELSE (IF ColonIn(frags[1]) THEN <<NL>> \o frags[1] \o <<NL>> ELSE frags[1] \o <<SP>>)
       \o Routed(Tail(frags))

\* C14: when the line loop has run, the ingredients accumulator is the first
\* fragments of the non-empty lines 5..44, each followed by a newline, and
\* the method accumulator their second fragments, each between newlines when
\* it holds a colon and followed by one space when not, all in line order.
C14_BodyRouting ==
  pc = "finish" =>
    /\ locals.ingredients = EachOnALine(Column(PageLines(i), 5, 44, 1))
    /\ locals.method = Routed(Column(PageLines(i), 5, 44, 2))

C14_Witness ==
  /\ pc = "finish"
  /\ locals.ingredients = <<"W", NL, "a", SP, "a", NL>>
  /\ locals.method = <<NL, "M", SP, "a", ":", NL, "W", SP>>
  /\ locals.recipe_header # << >>

\* the line without its third and later fragments
FirstTwo(line) ==
  LET frags == Fragments(line)
  IN IF Len(frags) <= 2 THEN line ELSE frags[1] \o Gap \o frags[2]

\* the page without the lines of index BodyEnd and more and without the
\* third and later fragments of every line
Truncated(lines) ==
  [k \in 1..Len(lines) |-> IF k - 1 >= BodyEnd THEN << >> ELSE FirstTwo(lines[k])]

SameFields(r, c) ==
  /\ r.recipe_header = c.recipe_header
  /\ r.serving_suggestion = c.serving_suggestion
  /\ r.ingredients = c.ingredients
  /\ r.method = c.method
  /\ r.chef_tip = c.chef_tip

\* the record of a page is the record of the same page truncated
TruncationEqual ==
  \A n \in 1..Len(recipe_chunks) :
    SameFields(recipe_chunks[n],
               Chunk(ChunkOfLines(Truncated(PageLines(recipe_chunks[n].doc))),
                     recipe_chunks[n].doc))

\* C15: an accepted page and the page that differs from it only in the lines
\* of index 45 and more and in the third and later fragments of its lines
\* give records with the same five fields, and the extraction of an accepted
\* page does not raise.
C15_SilentTruncation ==
  /\ TruncationEqual
  /\ pc # "raised"

\* the recipes whose vector was built
Built == {k \in 1..upload_i : Builds(upload_chunks[k])}

\* how often the vector of recipe k is in the batch
TimesIn(batch, k) == Cardinality({x \in 1..Len(batch) : batch[x] = k})

\* how often the vector of recipe k was sent by a successful upsert
RECURSIVE TimesSent(_, _)
TimesSent(calls, k) ==
  IF calls = << >> THEN 0
  ELSE (IF calls[1].ok THEN TimesIn(calls[1].vectors, k) ELSE 0) + TimesSent(Tail(calls), k)

\* the number of vectors in the successful upserts
RECURSIVE VectorsSent(_)
VectorsSent(calls) ==
  IF calls = << >> THEN 0
  ELSE (IF calls[1].ok THEN Len(calls[1].vectors) ELSE 0) + VectorsSent(Tail(calls))

\* C16: when upload_recipes of a connected store returns, the vector of
\* every recipe that built one was sent by exactly one successful upsert and
\* the count returned is the number of vectors in the successful upserts;
\* a store that is not connected makes no upsert call.
C16_UploadAccounting ==
  /\ upc = "returned" =>
       /\ \A k \in Built : TimesSent(upserts, k) = 1
       /\ successful_uploads = VectorsSent(upserts)
  /\ ~index => upserts = << >>

C16_Witness ==
  /\ upc = "returned"
  /\ index
  /\ \E c \in 1..Len(upserts) : ~upserts[c].ok
  /\ \E c \in 1..Len(upserts) : upserts[c].ok /\ Len(upserts[c].vectors) > batch_size
  /\ \E k \in 1..Len(upload_chunks) : ~Builds(upload_chunks[k])
  /\ Cardinality(Built) >= 3
  /\ batch_size >= 2

\* the place of the keyword in the line, in whatever case it was typed
KeywordAt(s) == FirstIndex(Lower(s), "filter:")

BeforeKeyword(s) == Strip(SubSeq(s, 1, KeywordAt(s) - 1))

AfterKeyword(s) == Strip(SubSeq(s, KeywordAt(s) + 1, Len(s)))

\* the turn of the loop has dealt with the line that was typed
Handled == event = "line" /\ lpc \in {"query", "caught"}

\* C17: for a typed line whose lower-cased form holds 'filter:' the loop
\* makes one query, its recipe_type the trimmed upper-cased text after the
\* keyword and its ingredients the trimmed text before it; and the loop ends
\* only on a quit word or a keyboard interrupt.
C17_FilterCommand ==
  /\ (Handled /\ HasTok(Lower(line_in), "filter:")) =>
       /\ call.made
       /\ call.recipe_type = Some(Upper(AfterKeyword(line_in)))
       /\ call.ingredients = BeforeKeyword(line_in)
  /\ lpc = "ended" => (event = "interrupt" \/ Lower(Strip(line_in)) \in QuitWords)

====
